---- MODULE Spec2Model ----
(***************************************************************************)
(* A model of teleNewsBot: the subscriber store (subscriber_db_sqlite.py   *)
(* and subscriber_db.py), the summarizer, the distribution pass, the       *)
(* monitor loop and the command handlers of simple_solution.py.            *)
(*                                                                         *)
(* The specifications share the definitions, each over the part of the     *)
(* program its properties are about:                                       *)
(*   SpecStore, SpecTwin   the store operations of either backend, called  *)
(*                one after another; SpecTwin also gives the other backend *)
(*                the same calls;                                          *)
(*   SpecTxn      two SQLite connections, execute and commit as two steps; *)
(*   SpecRun      startup: construction, the admin's row, connect();       *)
(*   SpecMonitor, SpecMonitorLive, SpecPass, SpecClock                     *)
(*                the monitor loop running alone over a store that already *)
(*                holds subscribers, with the history of its cycles and    *)
(*                passes recorded (SpecPass over either backend, SpecClock *)
(*                with the wall clock and /status);                        *)
(*   SpecNet      the monitor loop over a connection that can drop, with   *)
(*                the reconnect branch of its exception handler;           *)
(*   SpecSubscribe, SpecCommands                                           *)
(*                the command handlers, one at a time;                     *)
(*   SpecRace     the monitor loop with /start and /stop in between;       *)
(*   Spec         the running bot: the monitor loop and one command        *)
(*                handler task interleaved at their await points.          *)
(* Unless said otherwise a specification runs over the SQLite backend, the *)
(* one simple_solution.py imports.                                         *)
(***************************************************************************)
EXTENDS Integers, Sequences, FiniteSets, TLC

\* ------------------------------------------------------------------ bounds

\* Recipient identifiers are 1..MaxUser.
MaxUser == 2
\* Message identifiers of the monitored channel are 1..MaxMsgId.
MaxMsgId == 2
\* The wall clock takes the values 0..MaxTime.
MaxTime == 1

UserIds == 1..MaxUser

\* The display fields (username, first_name) a sender may have when a command
\* arrives: sender.username may be None.
Profiles == {<<"alice", "Alice">>, <<"None", "Al">>}
\* In Spec every sender keeps one profile.
Profile == <<"alice", "Alice">>

\* ------------------------------------------------------------------- state

VARIABLES
    backend,             \* which SubscriberDB class is in use: "sqlite" or "pg"
    net,                 \* the Telegram clients: the reader's connection, the bot client object in use
    table,               \* the rows of the subscribers table
    now,                 \* the wall clock
    srcNewest,           \* the monitored channel: identifier of its newest message (0: none)
    last_message_id,     \* monitor_and_summarize's cursor (0 stands for None)
    last_processed_time, \* FinancialNewsMonitor.last_processed_time
    mon,                 \* the monitor loop task: its position and locals
    cmd,                 \* the command handler task: its position and locals
    cmdHist,             \* history: the last command and the steps of its handler
    proc,                \* the process: the position of main(), the exit status, what was logged
    observe,             \* which of the histories below are recorded
    atFetch,             \* history: at the monitor's last fetch, the cursor and the newest identifier of the fetch before (0: empty)
    failedCycles,        \* history: newest identifiers whose monitor cycle ended in a fallback or an exception
    pass,                \* history: the sends and store failures of the monitor's current pass
    lastCycleRaised,     \* history: the monitor's last cycle ended in the loop's except branch
    everAdded,           \* history: the identifiers add_subscriber has stored
    lastOp,              \* history: the last store operation and what it returned
    twin,                \* history: the table and the last result of the other backend, given the same calls (SpecTwin)
    txn,                 \* per task, its SQLite transaction in flight (SpecTxn)
    base,                \* history: the table when the transactions in flight were begun
    chain                \* history: progress of an add; remove; add sequence on one id

vars == <<backend, net, table, now, srcNewest, last_message_id, last_processed_time,
          mon, cmd, proc, cmdHist, observe, atFetch, failedCycles, pass, lastCycleRaised,
          everAdded, lastOp, chain, twin, txn, base>>

\* What SpecStore leaves alone, and what the store operations of Spec leave alone.
botVars == <<srcNewest, last_message_id, last_processed_time, mon, cmd, proc, cmdHist,
             observe, atFetch, failedCycles, pass, lastCycleRaised>>
monHist == <<observe, atFetch, failedCycles, pass, lastCycleRaised>>
storeHist == <<everAdded, lastOp, chain, twin, txn, base, cmdHist>>

\* --------------------------------------------------- the subscribers table

\* The rows of `tbl` whose primary key is `user_id`.
RowsOf(tbl, user_id) == {r \in tbl : r.user_id = user_id}

NewRow(user_id, username, first_name, ts) ==
    [user_id |-> user_id, username |-> username, first_name |-> first_name,
     subscribed_at |-> ts, active |-> TRUE]

\* Faulty variant: INSERT OR IGNORE, an existing row is left as it is.
InsertOrIgnore(tbl, user_id, username, first_name, ts) ==
    IF RowsOf(tbl, user_id) = {}
    THEN tbl \cup {[user_id |-> user_id, username |-> username,
                    first_name |-> first_name, subscribed_at |-> ts, active |-> TRUE]}
    ELSE tbl

\* INSERT OR REPLACE INTO subscribers ...: the row with the same primary key
\* is deleted and the new row, with a new subscribed_at, is inserted.
InsertOrReplace(tbl, user_id, username, first_name, ts) ==
    (tbl \ RowsOf(tbl, user_id)) \cup {NewRow(user_id, username, first_name, ts)}

\* INSERT ... ON CONFLICT (user_id) DO UPDATE SET active=TRUE, username=$2,
\* first_name=$3: an existing row keeps its subscribed_at.
InsertOnConflictUpdate(tbl, user_id, username, first_name, ts) ==
    IF RowsOf(tbl, user_id) = {}
    THEN tbl \cup {NewRow(user_id, username, first_name, ts)}
    ELSE {IF r.user_id = user_id
          THEN [r EXCEPT !.active = TRUE, !.username = username,
                         !.first_name = first_name]
          ELSE r : r \in tbl}

\* Faulty variant: an upsert, a missing row is inserted inactive.
UpsertInactive(tbl, user_id) ==
    IF \E r \in tbl : r.user_id = user_id
    THEN {IF r.user_id = user_id THEN [r EXCEPT !.active = FALSE] ELSE r : r \in tbl}
    ELSE tbl \cup {[user_id |-> user_id, username |-> "None", first_name |-> "None",
                    subscribed_at |-> 0, active |-> FALSE]}

\* Faulty variant: DELETE FROM subscribers WHERE user_id = ?
DeleteRow(tbl, user_id) == {r \in tbl : r.user_id # user_id}

\* UPDATE subscribers SET active = 0 WHERE user_id = ?
UpdateInactive(tbl, user_id) ==
    {IF r.user_id = user_id THEN [r EXCEPT !.active = FALSE] ELSE r : r \in tbl}

\* SELECT ... WHERE active = 1
ActiveRows(tbl) == {r \in tbl : r.active}

\* The rows of `rows` as the list of their user_id, in rowid (= user_id) order,
\* one element per row.
RECURSIVE UserIdList(_)
UserIdList(rows) ==
    IF rows = {} THEN <<>>
    ELSE LET first == CHOOSE r \in rows : \A q \in rows : r.user_id <= q.user_id
         IN  <<first.user_id>> \o UserIdList(rows \ {first})

\* ----------------------------------------------------- SubscriberDB methods
\* Each returns [table |-> the table afterwards, result |-> what the caller
\* gets]. dbOk = FALSE is a backend failure (an exception inside the try).
\* SQLite results are "True"/"False"; the PostgreSQL methods return "None" and
\* re-raise ("raise").

\* subscriber_db_sqlite.SubscriberDB.add_subscriber
sqlite_add_subscriber(tbl, user_id, username, first_name, dbOk) ==
    IF dbOk
    THEN [table |-> InsertOrReplace(tbl, user_id, username, first_name, now),
          result |-> "True"]
    ELSE [table |-> tbl, result |-> "False"]

\* subscriber_db.SubscriberDB.add_subscriber: no return statement, and the
\* except branch ends in raise.
pg_add_subscriber(tbl, user_id, username, first_name, dbOk) ==
    IF dbOk
    THEN [table |-> InsertOnConflictUpdate(tbl, user_id, username, first_name, now),
          result |-> "None"]
    ELSE [table |-> tbl, result |-> "raise"]

add_subscriber(tbl, user_id, username, first_name, dbOk) ==
    IF backend = "sqlite"
    THEN sqlite_add_subscriber(tbl, user_id, username, first_name, dbOk)
    ELSE pg_add_subscriber(tbl, user_id, username, first_name, dbOk)

\* subscriber_db_sqlite.SubscriberDB.remove_subscriber
sqlite_remove_subscriber(tbl, user_id, dbOk) ==
    IF dbOk
    THEN [table |-> UpdateInactive(tbl, user_id), result |-> "True"]
    ELSE [table |-> tbl, result |-> "False"]

\* subscriber_db.SubscriberDB.remove_subscriber
pg_remove_subscriber(tbl, user_id, dbOk) ==
    IF dbOk
    THEN [table |-> UpdateInactive(tbl, user_id), result |-> "None"]
    ELSE [table |-> tbl, result |-> "raise"]

remove_subscriber(tbl, user_id, dbOk) ==
    IF backend = "sqlite"
    THEN sqlite_remove_subscriber(tbl, user_id, dbOk)
    ELSE pg_remove_subscriber(tbl, user_id, dbOk)

get_active_subscribers(tbl, dbOk) ==
    IF dbOk THEN UserIdList(ActiveRows(tbl)) ELSE <<>>

\* Faulty variant: SELECT COUNT(*) FROM subscribers
CountAllRows(tbl, dbOk) == IF dbOk THEN Cardinality(tbl) ELSE 0

\* SELECT COUNT(*) FROM subscribers WHERE active = 1
get_subscriber_count(tbl, dbOk) ==
    IF dbOk THEN Cardinality({r \in tbl : r.active}) ELSE 0

\* ------------------------------------------------------------ store history

NoOp == [op |-> "none", user_id |-> 0, username |-> "None", first_name |-> "None",
         dbOk |-> TRUE, result |-> "None"]

Succeeded(result) == result \in {"True", "None"}

\* chain.stage counts how much of "add(id); remove(id); add(id)", each
\* succeeding and with no other store write between, has just been done on
\* chain.user_id.
NoChain == [stage |-> 0, user_id |-> 0]

ChainAfterAdd(user_id, result) ==
    IF ~Succeeded(result) THEN NoChain
    ELSE IF chain.stage = 2 /\ chain.user_id = user_id
         THEN [stage |-> 3, user_id |-> user_id]
         ELSE [stage |-> 1, user_id |-> user_id]

ChainAfterRemove(user_id, result) ==
    IF Succeeded(result) /\ chain.stage \in {1, 3} /\ chain.user_id = user_id
    THEN [stage |-> 2, user_id |-> user_id]
    ELSE NoChain

EverAddedAfter(user_id, result) ==
    IF Succeeded(result) THEN everAdded \cup {user_id} ELSE everAdded

\* The history named h is recorded when observe contains h.
Histories == {"monitor", "commands", "twin"}

Recorded(h, new, old) == IF h \in observe THEN new ELSE old

\* The same call made on the SubscriberDB class of the other module.
other_add_subscriber(tbl, user_id, username, first_name, dbOk) ==
    IF backend = "sqlite"
    THEN pg_add_subscriber(tbl, user_id, username, first_name, dbOk)
    ELSE sqlite_add_subscriber(tbl, user_id, username, first_name, dbOk)

other_remove_subscriber(tbl, user_id, dbOk) ==
    IF backend = "sqlite"
    THEN pg_remove_subscriber(tbl, user_id, dbOk)
    ELSE sqlite_remove_subscriber(tbl, user_id, dbOk)

\* --------------------------------------------------------- store operations
\* The actions of SpecStore: one call of a SubscriberDB method.

AddSubscriber(user_id, username, first_name, dbOk) ==
    LET r == add_subscriber(table, user_id, username, first_name, dbOk)
    IN  /\ table' = r.table
        /\ lastOp' = [op |-> "add", user_id |-> user_id, username |-> username,
                      first_name |-> first_name, dbOk |-> dbOk, result |-> r.result]
        /\ chain' = ChainAfterAdd(user_id, r.result)
        /\ everAdded' = EverAddedAfter(user_id, r.result)
        /\ twin' = Recorded("twin", other_add_subscriber(twin.table, user_id, username,
                                                 first_name, dbOk), twin)
        /\ UNCHANGED <<backend, net, now, txn, base>>
        /\ UNCHANGED botVars

RemoveSubscriber(user_id, dbOk) ==
    LET r == remove_subscriber(table, user_id, dbOk)
    IN  /\ table' = r.table
        /\ lastOp' = [op |-> "remove", user_id |-> user_id, username |-> "None",
                      first_name |-> "None", dbOk |-> dbOk, result |-> r.result]
        /\ chain' = ChainAfterRemove(user_id, r.result)
        /\ twin' = Recorded("twin", other_remove_subscriber(twin.table, user_id, dbOk), twin)
        /\ UNCHANGED <<backend, net, now, everAdded, txn, base>>
        /\ UNCHANGED botVars

Tick ==
    /\ now < MaxTime
    /\ now' = now + 1
    /\ UNCHANGED <<backend, net, table, everAdded, lastOp, chain, twin, txn, base>>
    /\ UNCHANGED botVars

\* ------------------------------------------------- SQLite transactions
\* A method of subscriber_db_sqlite.SubscriberDB opens its own connection,
\* awaits db.execute(statement) and then awaits db.commit(): two steps, with
\* other tasks running between them. The statement begins a transaction that
\* holds the database's write lock until the commit; the rows it wrote (image)
\* are installed by the commit.

Tasks == {"mon", "cmd"}

NoTxn == [pc |-> "idle", op |-> "none", user_id |-> 0, ts |-> 0, image |-> {},
          result |-> "None", waited |-> FALSE]

\* The task whose connection holds the write lock.
LockHolders == {t \in Tasks : txn[t].pc = "executed"}

\* Faulty variant: no write lock.
NoLock(t) == TRUE

\* A connection's statement can take the write lock.
CanWrite(t) == LockHolders \subseteq {t}

\* What the statement of `op` makes of tbl.
Statement(tbl, op, user_id, ts) ==
    IF op = "add" THEN InsertOrReplace(tbl, user_id, Profile[1], Profile[2], ts)
    ELSE UpdateInactive(tbl, user_id)

\* The task calls add_subscriber (line 37) or remove_subscriber (line 53);
\* waited: another connection holds the write lock at that time.
TxnCall(t, op, user_id) ==
    /\ txn[t].pc = "idle"
    /\ txn' = [txn EXCEPT ![t] = [NoTxn EXCEPT !.pc = "called", !.op = op,
                                              !.user_id = user_id,
                                              !.waited = (LockHolders # {})]]
    /\ base' = IF \A u \in Tasks : txn[u].pc = "idle" THEN table ELSE base
    /\ UNCHANGED <<backend, net, table, now, everAdded, lastOp, chain, twin>>
    /\ UNCHANGED botVars

\* await db.execute(...) of add_subscriber (lines 41-45) or remove_subscriber
\* (lines 57-59), once the write lock is free.
TxnExecute(t) ==
    /\ txn[t].pc = "called"
    /\ CanWrite(t)
    /\ txn' = [txn EXCEPT ![t].pc = "executed", ![t].ts = now,
                          ![t].image = Statement(table, txn[t].op, txn[t].user_id, now)]
    /\ UNCHANGED <<backend, net, table, now, base, everAdded, lastOp, chain, twin>>
    /\ UNCHANGED botVars

\* db.execute raises "database is locked": the other connection has held the
\* write lock for longer than the busy timeout. The method returns False.
TxnBusy(t) ==
    /\ txn[t].pc = "called"
    /\ ~CanWrite(t)
    /\ txn' = [txn EXCEPT ![t].pc = "done", ![t].result = "False"]
    /\ UNCHANGED <<backend, net, table, now, base, everAdded, lastOp, chain, twin>>
    /\ UNCHANGED botVars

\* await db.commit() (lines 46 and 60); when it raises, the connection is
\* closed, which rolls the transaction back, and the method returns False.
TxnCommit(t, dbOk) ==
    /\ txn[t].pc = "executed"
    /\ table' = IF dbOk THEN txn[t].image ELSE table
    /\ txn' = [txn EXCEPT ![t].pc = "done",
                          ![t].result = IF dbOk THEN "True" ELSE "False"]
    /\ UNCHANGED <<backend, net, now, base, everAdded, lastOp, chain, twin>>
    /\ UNCHANGED botVars

\* Both methods have returned.
TxnReturn ==
    /\ \A t \in Tasks : txn[t].pc = "done"
    /\ txn' = [t \in Tasks |-> NoTxn]
    /\ UNCHANGED <<backend, net, table, now, base, everAdded, lastOp, chain, twin>>
    /\ UNCHANGED botVars

\* ------------------------------------------------------------ the channel
\* fetch_recent_messages returns the messages newest first, or [] (nothing in
\* the window, the channel not found, the reader not connected, an error).
\* A batch is the list of its message identifiers.

\* The identifiers hi, hi-1, ..., 1.
RECURSIVE Window(_)
Window(hi) == IF hi = 0 THEN <<>> ELSE <<hi>> \o Window(hi - 1)

\* What lines 113-147 return when nothing raises: the batch, or [] (no
\* message with text in the window, the channel not found).
FetchResults == {<<>>, Window(srcNewest)}

\* messages[0]["id"], 0 for an empty batch
Newest(messages) == IF messages = <<>> THEN 0 ELSE Head(messages)

\* ------------------------------------------------------------ the clients
\* net.reader: self.user_client.is_connected(). net.bot_client: which
\* TelegramClient object self.bot_client is, the one connect() made when run()
\* called it ("run") or one made by a later connect() ("reconnect").
\* net.faulty: whether the network fails in this run of the bot.

Connected == [reader |-> TRUE, bot_client |-> "run", faulty |-> FALSE]

\* The client object setup_handlers (lines 389-576) registered the handlers
\* on, and run_until_disconnected (line 590) serves.
HandlersClient == "run"

\* str.lower() and the `in` of strings, for the letters the texts below use.
LowerChar(c) ==
    CASE c = "C" -> "c" [] c = "D" -> "d" [] c = "A" -> "a" [] c = "S" -> "s"
      [] c = "T" -> "t" [] OTHER -> c

RECURSIVE Lower(_)
Lower(text) ==
    IF Len(text) = 0 THEN ""
    ELSE LowerChar(SubSeq(text, 1, 1)) \o Lower(SubSeq(text, 2, Len(text)))

Contains(text, sub) ==
    \E i \in 1..(Len(text) - Len(sub) + 1) : SubSeq(text, i, i + Len(sub) - 1) = sub

\* Lines 152 and 373: "disconnected" in str(e).lower() or "connection" in
\* str(e).lower()
IsConnectionIssue(text) ==
    Contains(Lower(text), "disconnected") \/ Contains(Lower(text), "connection")

\* The reader drops off the network: is_connected() turns False.
ReaderDrops ==
    /\ net.faulty
    /\ net.reader
    /\ net' = [net EXCEPT !.reader = FALSE]
    /\ UNCHANGED <<backend, table, now, everAdded, lastOp, chain, twin, txn, base>>
    /\ UNCHANGED botVars

\* ---------------------------------------------------- fetch_recent_messages
\* A call gives [messages |-> what it returns, net |-> the clients afterwards,
\* attempts |-> the outcomes of the reconnect attempts it made, in order,
\* raised |-> whether it raised instead of returning].

\* The texts of the exceptions lines 113-147 raise when the network fails.
FetchErrorTexts == {"Cannot send requests while disconnected",
                    "A wait of 30 seconds is required"}

\* Lines 113-158 over clients n, after the reconnect attempts `attempts`: the
\* try returns; or it raises, the except branch disconnects the reader when
\* the text names a connection, and [] is returned.
FetchBody(n, attempts) ==
    {[messages |-> batch, net |-> n, attempts |-> attempts, raised |-> FALSE] :
        batch \in FetchResults}
    \cup IF n.faulty
         THEN {[messages |-> <<>>,
                net |-> IF IsConnectionIssue(text) THEN [n EXCEPT !.reader = FALSE] ELSE n,
                attempts |-> attempts, raised |-> FALSE] : text \in FetchErrorTexts}
         ELSE {}

\* Faulty variant: a failed reconnect attempt is raised to the caller.
fetchRaisesOnFailedReconnect(n) ==
    IF n.reader THEN FetchBody(n, <<>>)
    ELSE {[messages |-> <<>>, net |-> n, attempts |-> <<"raised">>, raised |-> TRUE],
          [messages |-> <<>>, net |-> [n EXCEPT !.reader = TRUE],
           attempts |-> <<"not_authorized">>, raised |-> TRUE]}
         \cup FetchBody([n EXCEPT !.reader = TRUE], <<"authorized">>)

\* fetch_recent_messages (lines 95-158) over clients n. self.user_client is
\* set once run() has connected, so line 98 is not reached. The reconnect
\* attempt of lines 104-105 raises, or returns with is_user_authorized() False
\* or True.
fetch_recent_messages(n) ==
    IF n.reader THEN FetchBody(n, <<>>)
    ELSE {[messages |-> <<>>, net |-> n, attempts |-> <<"raised">>, raised |-> FALSE],
          [messages |-> <<>>, net |-> [n EXCEPT !.reader = TRUE],
           attempts |-> <<"not_authorized">>, raised |-> FALSE]}
         \cup FetchBody([n EXCEPT !.reader = TRUE], <<"authorized">>)

\* ---------------------------------------------------------- the summarizer

None == [isNone |-> TRUE]

Stock == [ticker |-> "AAPL", company_name |-> "Apple", impact_type |-> "positive",
          impact_reason |-> "r", confidence_level |-> "high",
          expected_magnitude |-> "moderate"]
Sector == [sector_name |-> "Tech", impact_type |-> "positive", impact_reason |-> "r",
           key_companies |-> <<"AAPL">>]

\* What the analysis collaborator may do with a request: fail it ("error"),
\* answer with no content (message.content is None), or answer with text.
\* The texts stand for: text that is no JSON, the empty JSON object, a JSON
\* object with only a summary, and an object of the full structure.
Contents == {"not json", "{}", "{summary}", "{full}"}
CollabOutputs ==
    {[kind |-> "error", content |-> ""], [kind |-> "no_content", content |-> ""]}
    \cup {[kind |-> "content", content |-> c] : c \in Contents}
NoOutput == [kind |-> "none", content |-> ""]

\* json.loads(result): ok = FALSE is json.JSONDecodeError.
JsonLoads(content) ==
    CASE content = "{}" -> [ok |-> TRUE, value |-> <<>>]
      [] content = "{summary}" -> [ok |-> TRUE, value |-> [summary |-> <<"s">>]]
      [] content = "{full}" ->
            [ok |-> TRUE,
             value |-> [summary |-> <<"s">>,
                        potentially_impacted_stocks |-> <<Stock>>,
                        market_sectors |-> <<Sector>>,
                        sentiment |-> "bullish",
                        key_points |-> <<"a", "b", "c", "d">>,
                        market_implications |-> <<"m">>]]
      [] OTHER -> [ok |-> FALSE, value |-> None]

\* The fallback of the except json.JSONDecodeError branch. A text is the list
\* of the pieces the code concatenates.
ParseFallback(result) ==
    [summary |-> <<"Summary could not be generated in the correct format. Here's the raw output: ",
                   result, "...">>,
     potentially_impacted_stocks |-> <<>>,
     market_sectors |-> <<>>,
     sentiment |-> "neutral",
     key_points |-> <<"Error: Unable to parse structured data">>,
     market_implications |-> <<>>]

\* The fallback of the outer except Exception branch.
ErrorFallback ==
    [summary |-> <<"Error generating summary">>,
     potentially_impacted_stocks |-> <<>>,
     market_sectors |-> <<>>,
     sentiment |-> "neutral",
     key_points |-> <<"Failed to analyze news due to an error">>,
     market_implications |-> <<>>]

\* Faulty variant: the outer except returns None.
summarizeNoneOnError(messages, out) ==
    IF messages = <<>> THEN None
    ELSE IF out.kind # "content" THEN None
    ELSE LET parsed == JsonLoads(out.content)
         IN  IF parsed.ok THEN parsed.value ELSE ParseFallback(out.content)

\* FinancialNewsMonitor.summarize(messages), the collaborator doing `out`.
\* With no content json.loads raises TypeError, which the outer except takes.
summarize(messages, out) ==
    IF messages = <<>> THEN None
    ELSE IF out.kind # "content" THEN ErrorFallback
    ELSE LET parsed == JsonLoads(out.content)
         IN  IF parsed.ok THEN parsed.value ELSE ParseFallback(out.content)

\* Python truthiness of what summarize returned: None and {} are falsy.
Truthy(summary) == summary # None /\ DOMAIN summary # {}

\* The keys the message formatting subscripts: summary['summary'], ...
\* (market_implications is read with .get).
RenderKeys == {"summary", "key_points", "sentiment", "potentially_impacted_stocks",
               "market_sectors"}

\* Formatting the message raises KeyError.
RenderRaises(summary) == ~(RenderKeys \subseteq DOMAIN summary)

\* The keys in the order lines 284-303 subscript them.
RenderOrder == <<"summary", "key_points", "sentiment", "potentially_impacted_stocks",
                 "market_sectors">>

\* str(e) of that KeyError: the repr of the first key that is missing.
RenderErrorText(summary) ==
    LET missing == {i \in 1..Len(RenderOrder) : RenderOrder[i] \notin DOMAIN summary}
        first == CHOOSE i \in missing : \A j \in missing : i <= j
    IN  "'" \o RenderOrder[first] \o "'"

\* ----------------------------------------------------- the distribution pass
\* send_summary_to_subscribers(summary), run by task record t (mon or cmd),
\* one step per await: the snapshot, each send, each deregistration.

\* sent: the recipients the pass has delivered the message to.
NoLocals == [messages |-> <<>>, collab |-> NoOutput, summary |-> None,
             subscribers |-> <<>>, idx |-> 0, sent |-> {}, exc |-> ""]

\* Lines 270-316: the guards, the snapshot, the formatting.
DistBegin(t, dbOk) ==
    LET subscribers == get_active_subscribers(table, dbOk)
        fresh == [t EXCEPT !.subscribers = subscribers, !.idx = 1, !.sent = {}]
    IN  IF ~Truthy(t.summary) THEN [fresh EXCEPT !.pc = "returned"]
        ELSE IF subscribers = <<>> THEN [fresh EXCEPT !.pc = "returned"]
        ELSE IF RenderRaises(t.summary) THEN [fresh EXCEPT !.pc = "raised"]
        ELSE [fresh EXCEPT !.pc = "send"]

\* Faulty variant: the loop passes over every second subscriber.
NextSubscriberSkips(t) ==
    IF t.idx + 1 >= Len(t.subscribers)
    THEN [t EXCEPT !.pc = "returned", !.idx = @ + 2]
    ELSE [t EXCEPT !.pc = "send", !.idx = @ + 2]

\* The for loop moves to the next subscriber, or ends.
NextSubscriber(t) ==
    IF t.idx >= Len(t.subscribers)
    THEN [t EXCEPT !.pc = "returned", !.idx = @ + 1]
    ELSE [t EXCEPT !.pc = "send", !.idx = @ + 1]

\* Faulty variant: a send that raises ends the pass.
DistSendBreak(t, delivered) ==
    IF delivered
    THEN [NextSubscriber(t) EXCEPT !.sent = @ \cup {t.subscribers[t.idx]}]
    ELSE [t EXCEPT !.pc = "returned"]

\* Lines 320-332: bot_client.send_message to subscribers[idx]; a send that
\* raises goes on to the deregistration.
DistSend(t, delivered) ==
    IF delivered
    THEN [NextSubscriber(t) EXCEPT !.sent = @ \cup {t.subscribers[t.idx]}]
    ELSE [t EXCEPT !.pc = "remove"]

\* Faulty variant: an exception of remove_subscriber leaves the pass.
DistRemovePropagates(t, dbOk) ==
    LET r == remove_subscriber(table, t.subscribers[t.idx], dbOk)
    IN  [table |-> r.table, result |-> r.result,
         task |-> IF r.result = "raise" THEN [t EXCEPT !.pc = "raised"]
                  ELSE NextSubscriber(t)]

\* Lines 333-339: remove_subscriber(user_id), its result ignored, an exception
\* of it caught and logged; then continue.
DistRemove(t, dbOk) ==
    LET r == remove_subscriber(table, t.subscribers[t.idx], dbOk)
    IN  [table |-> r.table, result |-> r.result, task |-> NextSubscriber(t)]

\* --------------------------------------------------------- monitor history
\* Recorded when observe contains "monitor". pass: the identifiers a send was attempted
\* for in the monitor's current pass, in order; those whose send raised;
\* those whose deregistration failed; whether every store call of the pass
\* succeeded; the table when the pass began.

\* atFetch: at the monitor's last fetch, the cursor, the newest identifier of
\* the fetch before, whether the reader was connected, the reconnect attempts.
NoFetch == [cursor |-> 0, prevNewest |-> 0, wasConnected |-> TRUE, attempts |-> <<>>]

NoPass == [attempted |-> <<>>, failedSends |-> {}, failedRemoves |-> {},
           storeOk |-> TRUE, before |-> {}]

IsFallback(summary) ==
    summary = ErrorFallback \/ \E c \in Contents : summary = ParseFallback(c)

\* ------------------------------------------------------------ monitor loop
\* monitor_and_summarize: mon.pc is the loop's position.

\* Line 354: messages = await self.fetch_recent_messages(...)
MonFetch ==
    /\ mon.pc = "fetch"
    /\ \E r \in fetch_recent_messages(net) :
          /\ mon' = [NoLocals EXCEPT !.messages = r.messages]
                       @@ [pc |-> IF r.raised THEN "error" ELSE "check"]
          /\ net' = r.net
          /\ atFetch' = Recorded("monitor", [cursor |-> last_message_id,
                                   prevNewest |-> Newest(mon.messages),
                                   wasConnected |-> net.reader,
                                   attempts |-> r.attempts], atFetch)
    /\ lastCycleRaised' = FALSE
    /\ UNCHANGED <<backend, table, now, srcNewest, last_message_id,
                   last_processed_time, cmd, observe, failedCycles, pass>>
    /\ UNCHANGED storeHist
    /\ UNCHANGED proc

\* Faulty variant: every non-empty batch is summarized.
MonCheckNoDedup ==
    /\ mon.pc = "check"
    /\ IF mon.messages # <<>>
       THEN /\ last_message_id' = Head(mon.messages)
            /\ mon' = [mon EXCEPT !.pc = "summarize"]
       ELSE /\ mon' = [mon EXCEPT !.pc = "sleep"]
            /\ UNCHANGED last_message_id
    /\ UNCHANGED <<backend, net, table, now, srcNewest, last_processed_time, cmd>>
    /\ UNCHANGED monHist
    /\ UNCHANGED storeHist
    /\ UNCHANGED proc

\* Faulty variant: the cursor is not advanced before summarization.
MonCheckKeepsCursor ==
    /\ mon.pc = "check"
    /\ IF mon.messages # <<>>
          /\ (last_message_id = 0 \/ Head(mon.messages) # last_message_id)
       THEN mon' = [mon EXCEPT !.pc = "summarize"]
       ELSE mon' = [mon EXCEPT !.pc = "sleep"]
    /\ UNCHANGED <<backend, net, table, now, srcNewest, last_message_id,
                   last_processed_time, cmd>>
    /\ UNCHANGED monHist
    /\ UNCHANGED storeHist
    /\ UNCHANGED proc

\* Faulty variant: an empty batch clears the cursor.
MonCheckResetsOnEmpty ==
    /\ mon.pc = "check"
    /\ IF mon.messages # <<>>
          /\ (last_message_id = 0 \/ Head(mon.messages) # last_message_id)
       THEN /\ last_message_id' = Head(mon.messages)
            /\ mon' = [mon EXCEPT !.pc = "summarize"]
       ELSE /\ mon' = [mon EXCEPT !.pc = "sleep"]
            /\ last_message_id' = IF mon.messages = <<>> THEN 0 ELSE last_message_id
    /\ UNCHANGED <<backend, net, table, now, srcNewest, last_processed_time, cmd>>
    /\ UNCHANGED monHist
    /\ UNCHANGED storeHist
    /\ UNCHANGED proc

\* Lines 356-358 and 364-365: the dedup check and the cursor.
MonCheck ==
    /\ mon.pc = "check"
    /\ IF mon.messages # <<>>
          /\ (last_message_id = 0 \/ Head(mon.messages) # last_message_id)
       THEN /\ last_message_id' = Head(mon.messages)
            /\ mon' = [mon EXCEPT !.pc = "summarize"]
       ELSE /\ mon' = [mon EXCEPT !.pc = "sleep"]
            /\ UNCHANGED last_message_id
    /\ UNCHANGED <<backend, net, table, now, srcNewest, last_processed_time, cmd>>
    /\ UNCHANGED monHist
    /\ UNCHANGED storeHist
    /\ UNCHANGED proc

\* Lines 359-360: summary = self.summarize(messages); if summary: ...
MonSummarize ==
    /\ mon.pc = "summarize"
    /\ \E out \in CollabOutputs :
          LET summary == summarize(mon.messages, out)
          IN  /\ mon' = [mon EXCEPT !.collab = out, !.summary = summary,
                                    !.pc = IF Truthy(summary) THEN "distribute" ELSE "sleep"]
              /\ failedCycles' =
                    Recorded("monitor", IF IsFallback(summary)
                             THEN failedCycles \cup {Head(mon.messages)}
                             ELSE failedCycles,
                             failedCycles)
    /\ UNCHANGED <<backend, net, table, now, srcNewest, last_message_id,
                   last_processed_time, cmd, observe, atFetch, pass, lastCycleRaised>>
    /\ UNCHANGED storeHist
    /\ UNCHANGED proc

\* Line 361: await self.send_summary_to_subscribers(summary), up to its first
\* send. An exception of it is the loop's except Exception (line 370).
MonDistBegin ==
    /\ mon.pc = "distribute"
    /\ \E dbOk \in BOOLEAN :
          LET t == DistBegin(mon, dbOk)
          IN  /\ mon' = IF t.pc = "raised"
                        THEN [t EXCEPT !.pc = "error", !.exc = RenderErrorText(t.summary)]
                        ELSE t
              /\ failedCycles' =
                    Recorded("monitor", IF t.pc = "raised"
                             THEN failedCycles \cup {Head(mon.messages)}
                             ELSE failedCycles,
                             failedCycles)
              /\ pass' = Recorded("monitor", [NoPass EXCEPT !.storeOk = dbOk, !.before = table], pass)
    /\ UNCHANGED <<backend, net, table, now, srcNewest, last_message_id,
                   last_processed_time, cmd, observe, atFetch, lastCycleRaised>>
    /\ UNCHANGED storeHist
    /\ UNCHANGED proc

MonSend ==
    /\ mon.pc = "send"
    /\ \E delivered \in BOOLEAN :
          LET user_id == mon.subscribers[mon.idx]
          IN  /\ mon' = DistSend(mon, delivered)
              /\ pass' = Recorded("monitor", 
                    [pass EXCEPT !.attempted = Append(@, user_id),
                                 !.failedSends = IF delivered THEN @ ELSE @ \cup {user_id}],
                    pass)
    /\ UNCHANGED <<backend, net, table, now, srcNewest, last_message_id,
                   last_processed_time, cmd, observe, atFetch, failedCycles, lastCycleRaised>>
    /\ UNCHANGED storeHist
    /\ UNCHANGED proc

MonRemove ==
    /\ mon.pc = "remove"
    /\ \E dbOk \in BOOLEAN :
          LET r == DistRemove(mon, dbOk)
          IN  /\ table' = r.table
              /\ mon' = r.task
              /\ pass' = Recorded("monitor", 
                    [pass EXCEPT !.storeOk = @ /\ dbOk,
                                 !.failedRemoves = IF Succeeded(r.result) THEN @
                                                   ELSE @ \cup {mon.subscribers[mon.idx]}],
                    pass)
    /\ UNCHANGED <<backend, net, now, srcNewest, last_message_id, last_processed_time,
                   cmd, observe, atFetch, failedCycles, lastCycleRaised>>
    /\ UNCHANGED storeHist
    /\ UNCHANGED proc

\* Lines 362-363: self.last_processed_time = datetime.now(SGT). The locals of
\* the finished calls are dropped.
MonStamp ==
    /\ mon.pc = "returned"
    /\ last_processed_time' = now
    /\ mon' = [NoLocals EXCEPT !.messages = mon.messages] @@ [pc |-> "sleep"]
    /\ UNCHANGED <<backend, net, table, now, srcNewest, last_message_id, cmd>>
    /\ UNCHANGED monHist
    /\ UNCHANGED storeHist
    /\ UNCHANGED proc

\* Lines 367-368: await asyncio.sleep(interval_minutes * 60)
MonSleep ==
    /\ mon.pc = "sleep"
    /\ mon' = [NoLocals EXCEPT !.messages = mon.messages] @@ [pc |-> "fetch"]
    /\ UNCHANGED <<backend, net, table, now, srcNewest, last_message_id,
                   last_processed_time, cmd>>
    /\ UNCHANGED monHist
    /\ UNCHANGED storeHist
    /\ UNCHANGED proc

\* Faulty variant: the exception leaves monitor_and_summarize and the task ends.
MonErrorEndsLoop ==
    /\ mon.pc = "error"
    /\ mon' = [NoLocals EXCEPT !.messages = mon.messages] @@ [pc |-> "ended"]
    /\ lastCycleRaised' = Recorded("monitor", TRUE, lastCycleRaised)
    /\ UNCHANGED <<backend, net, table, now, srcNewest, last_message_id,
                   last_processed_time, cmd, observe, atFetch, failedCycles, pass>>
    /\ UNCHANGED storeHist
    /\ UNCHANGED proc

\* Faulty variant: the handler never reconnects.
MonErrorNeverReconnects ==
    /\ mon.pc = "error"
    /\ mon' = [NoLocals EXCEPT !.messages = mon.messages, !.exc = mon.exc]
                 @@ [pc |-> "retry"]
    /\ lastCycleRaised' = Recorded("monitor", TRUE, lastCycleRaised)
    /\ UNCHANGED <<backend, net, table, now, srcNewest, last_message_id,
                   last_processed_time, cmd, observe, atFetch, failedCycles, pass>>
    /\ UNCHANGED storeHist
    /\ UNCHANGED proc

\* Lines 370-373: except Exception as e; the text of e decides between the
\* reconnect sequence and the retry sleep.
MonError ==
    /\ mon.pc = "error"
    /\ mon' = [NoLocals EXCEPT !.messages = mon.messages, !.exc = mon.exc]
                 @@ [pc |-> IF IsConnectionIssue(mon.exc) THEN "disconnect" ELSE "retry"]
    /\ lastCycleRaised' = Recorded("monitor", TRUE, lastCycleRaised)
    /\ UNCHANGED <<backend, net, table, now, srcNewest, last_message_id,
                   last_processed_time, cmd, observe, atFetch, failedCycles, pass>>
    /\ UNCHANGED storeHist
    /\ UNCHANGED proc

\* What connect() (lines 70-93) can do: return, or raise at the reader's
\* connect, at its authorization check (ConnectionError, line 78), at the
\* bot's start, or at the store's connect.
ConnectOutcomes == {"connected", "connect_raised", "not_authorized",
                    "bot_start_raised", "store_raised"}

\* What a step of the handler's reconnect sequence leaves alone.
ReconnectFrame ==
    /\ UNCHANGED <<backend, table, now, srcNewest, last_message_id,
                   last_processed_time, cmd>>
    /\ UNCHANGED monHist
    /\ UNCHANGED storeHist
    /\ UNCHANGED proc

\* Lines 377-378: await self.user_client.disconnect()
MonDisconnect ==
    /\ mon.pc = "disconnect"
    /\ mon' = [mon EXCEPT !.pc = "pause"]
    /\ net' = [net EXCEPT !.reader = FALSE]
    /\ ReconnectFrame

\* Line 379: await asyncio.sleep(5)
MonPause ==
    /\ mon.pc = "pause"
    /\ mon' = [mon EXCEPT !.pc = "connect"]
    /\ UNCHANGED net
    /\ ReconnectFrame

\* connect() (lines 70-93) called again, the store being ready: a new reader
\* object is made and connected (lines 73-78); then a new bot client object is
\* made, assigned to self.bot_client (line 83) and started (line 86).
connect(n, outcome) ==
    CASE outcome = "connect_raised" -> [n EXCEPT !.reader = FALSE]
      [] outcome = "not_authorized" -> [n EXCEPT !.reader = TRUE]
      [] outcome = "bot_start_raised" -> [n EXCEPT !.reader = TRUE, !.bot_client = "reconnect"]
      [] OTHER -> [n EXCEPT !.reader = TRUE, !.bot_client = "reconnect"]

\* Lines 380-383: await self.connect(); an exception of it is logged.
MonReconnect ==
    /\ mon.pc = "connect"
    /\ mon' = [mon EXCEPT !.pc = "retry"]
    /\ \E outcome \in ConnectOutcomes \ {"store_raised"} : net' = connect(net, outcome)
    /\ ReconnectFrame

\* Lines 386-387: await asyncio.sleep(60)
MonRetrySleep ==
    /\ mon.pc = "retry"
    /\ mon' = [NoLocals EXCEPT !.messages = mon.messages] @@ [pc |-> "fetch"]
    /\ UNCHANGED net
    /\ ReconnectFrame

\* The channel posts a message.
NewPost ==
    /\ srcNewest < MaxMsgId
    /\ srcNewest' = srcNewest + 1
    /\ UNCHANGED <<backend, net, table, now, last_message_id, last_processed_time,
                   mon, cmd>>
    /\ UNCHANGED monHist
    /\ UNCHANGED storeHist
    /\ UNCHANGED proc

\* ---------------------------------------------------------- command handlers
\* setup_handlers: one handler task at a time, cmd.pc its position.

\* overlap: the handler's distribution pass began while the monitor's pass
\* was between two of its sends.
IdleCmd == NoLocals @@ [pc |-> "idle", command |-> "none", overlap |-> FALSE]

\* History of the handlers, recorded when observe contains "commands": the last command
\* (its sender, the sender's handle and name, whether its store call
\* succeeded), the table before it, whether it repeats the command before it
\* (the same command from the same sender with the same handle and name, both
\* store calls succeeding); the steps the handler has made, in order; whether
\* its fetch was non-empty; the snapshot of its distribution pass and the
\* identifiers a send was attempted for; whether it has ended; what /status
\* answered (the subscriber count and the "Last check" time); the identifier
\* whose send had failed in the monitor's pass and whose deregistration was
\* still to come when the command was handled (0: none).
NoReport == [count |-> 0, last_check |-> 0]

NoCmdHist == [command |-> "none", sender |-> 0, username |-> "None",
              first_name |-> "None", dbOk |-> TRUE, before |-> {}, repeat |-> FALSE,
              steps |-> <<>>, fetched |-> FALSE, snapshot |-> <<>>,
              attempted |-> <<>>, ended |-> TRUE, reported |-> NoReport, during |-> 0]

Entered(command, sender, username, first_name, dbOk, steps, ended) ==
    [NoCmdHist EXCEPT
        !.command = command, !.sender = sender, !.username = username,
        !.first_name = first_name, !.dbOk = dbOk, !.before = table,
        !.repeat = /\ cmdHist.command = command /\ cmdHist.sender = sender
                   /\ cmdHist.username = username /\ cmdHist.first_name = first_name
                   /\ cmdHist.dbOk /\ dbOk,
        !.steps = steps, !.ended = ended,
        !.during = IF mon.pc = "remove" THEN mon.subscribers[mon.idx] ELSE 0]

\* What a handler step that writes the store leaves alone.
CmdWriteFrame ==
    /\ UNCHANGED <<backend, net, now, srcNewest, last_message_id, last_processed_time,
                   mon, proc, lastOp, chain, twin, txn, base>>
    /\ UNCHANGED monHist

\* What a handler step that does not write the store leaves alone.
CmdFrame ==
    /\ UNCHANGED <<backend, net, table, now, srcNewest, last_message_id,
                   last_processed_time, mon, proc>>
    /\ UNCHANGED monHist
    /\ UNCHANGED <<everAdded, lastOp, chain, twin, txn, base>>

\* /start (lines 391-432): add_subscriber, then the welcome messages.
StartCommand(sender, username, first_name, dbOk) ==
    /\ cmd.pc = "idle"
    /\ LET r == add_subscriber(table, sender, username, first_name, dbOk)
       IN  /\ table' = r.table
           /\ everAdded' = EverAddedAfter(sender, r.result)
    /\ cmdHist' = Recorded("commands", Entered("start", sender, username, first_name, dbOk,
                                   <<"add_subscriber">>, TRUE), cmdHist)
    /\ UNCHANGED cmd
    /\ CmdWriteFrame

\* Faulty variant: the handler only answers.
SubscribeMeOnlyAnswers(sender, username, first_name, dbOk) ==
    /\ cmd.pc = "idle"
    /\ cmdHist' = Recorded("commands", Entered("subscribe_me", sender, username, first_name, dbOk,
                                   <<>>, TRUE), cmdHist)
    /\ UNCHANGED <<cmd, table, everAdded>>
    /\ CmdWriteFrame

\* /subscribe_me (lines 567-576)
SubscribeMeCommand(sender, username, first_name, dbOk) ==
    /\ cmd.pc = "idle"
    /\ LET r == add_subscriber(table, sender, username, first_name, dbOk)
       IN  /\ table' = r.table
           /\ everAdded' = EverAddedAfter(sender, r.result)
    /\ cmdHist' = Recorded("commands", Entered("subscribe_me", sender, username, first_name, dbOk,
                                   <<"add_subscriber">>, TRUE), cmdHist)
    /\ UNCHANGED cmd
    /\ CmdWriteFrame

\* /stop (lines 434-440)
StopCommand(sender, dbOk) ==
    /\ cmd.pc = "idle"
    /\ table' = remove_subscriber(table, sender, dbOk).table
    /\ cmdHist' = Recorded("commands", Entered("stop", sender, "None", "None", dbOk,
                                   <<"remove_subscriber">>, TRUE), cmdHist)
    /\ UNCHANGED <<cmd, everAdded>>
    /\ CmdWriteFrame

\* /help (lines 442-463): the handler answers with the command list.
HelpCommand ==
    /\ cmd.pc = "idle"
    /\ cmdHist' = Recorded("commands", Entered("help", 0, "None", "None", TRUE, <<"respond">>, TRUE),
                           cmdHist)
    /\ UNCHANGED cmd
    /\ CmdFrame

\* /status (lines 465-476): get_subscriber_count, then the answer with the
\* count and self.last_processed_time.
StatusCommand(dbOk) ==
    /\ cmd.pc = "idle"
    /\ cmdHist' = Recorded("commands", 
          [Entered("status", 0, "None", "None", dbOk,
                   <<"get_subscriber_count", "respond">>, TRUE)
              EXCEPT !.reported = [count |-> get_subscriber_count(table, dbOk),
                                   last_check |-> last_processed_time]],
          cmdHist)
    /\ UNCHANGED cmd
    /\ CmdFrame

\* Faulty variant: /test does not add the sender.
TestCommandWithoutAdd(sender, username, first_name, dbOk) ==
    /\ cmd.pc = "idle"
    /\ cmdHist' = Recorded("commands", Entered("test", sender, username, first_name, dbOk,
                                   <<>>, FALSE), cmdHist)
    /\ cmd' = [IdleCmd EXCEPT !.pc = "fetch", !.command = "test"]
    /\ UNCHANGED <<table, everAdded>>
    /\ CmdWriteFrame

\* /test (lines 494-507): add_subscriber first, then the fetch.
TestCommand(sender, username, first_name, dbOk) ==
    /\ cmd.pc = "idle"
    /\ LET r == add_subscriber(table, sender, username, first_name, dbOk)
       IN  /\ table' = r.table
           /\ everAdded' = EverAddedAfter(sender, r.result)
    /\ cmdHist' = Recorded("commands", Entered("test", sender, username, first_name, dbOk,
                                   <<"add_subscriber">>, FALSE), cmdHist)
    /\ cmd' = [IdleCmd EXCEPT !.pc = "fetch", !.command = "test"]
    /\ CmdWriteFrame

\* /force_update (lines 478-483)
ForceUpdateCommand ==
    /\ cmd.pc = "idle"
    /\ cmd' = [IdleCmd EXCEPT !.pc = "fetch", !.command = "force_update"]
    /\ cmdHist' = Recorded("commands", Entered("force_update", 0, "None", "None", TRUE, <<>>, FALSE),
                           cmdHist)
    /\ CmdFrame

\* Lines 483-484, 491-492 and 510-511, 564-565: fetch_recent_messages(hours=2)
CmdFetch ==
    /\ cmd.pc = "fetch"
    /\ \E r \in fetch_recent_messages(net) :
          LET batch == r.messages
          IN  /\ cmd' = IF r.raised \/ batch = <<>> THEN IdleCmd
                        ELSE [cmd EXCEPT !.messages = batch, !.pc = "summarize"]
              /\ net' = r.net
              /\ cmdHist' = Recorded("commands", [cmdHist EXCEPT !.steps = Append(@, "fetch"),
                                                     !.fetched = (batch # <<>>),
                                                     !.ended = (r.raised \/ batch = <<>>)],
                                     cmdHist)
    /\ UNCHANGED <<backend, table, now, srcNewest, last_message_id,
                   last_processed_time, mon, proc>>
    /\ UNCHANGED monHist
    /\ UNCHANGED <<everAdded, lastOp, chain, twin, txn, base>>

\* Lines 485-490 and 512-558: summarize; /test formats the message itself
\* (lines 515-550) and answers with it (line 554) before it calls the
\* distribution, and a KeyError in the formatting ends the handler.
CmdSummarize ==
    /\ cmd.pc = "summarize"
    /\ \E out \in CollabOutputs :
          LET summary == summarize(cmd.messages, out)
              ends == ~Truthy(summary) \/ (cmd.command = "test" /\ RenderRaises(summary))
          IN  /\ cmd' = IF ends THEN IdleCmd
                        ELSE [cmd EXCEPT !.messages = <<>>, !.summary = summary,
                                         !.pc = "distribute"]
              /\ cmdHist' = Recorded("commands", 
                    [cmdHist EXCEPT
                        !.steps = IF cmd.command = "test" /\ ~ends
                                  THEN @ \o <<"summarize", "respond">>
                                  ELSE Append(@, "summarize"),
                        !.ended = ends], cmdHist)
    /\ CmdFrame

\* The monitor's pass has made a send and has another to make.
MonBetweenSends == mon.pc \in {"send", "remove"} /\ mon.idx >= 2

\* Faulty variant: a pass waits until the monitor's pass is over.
CmdDistBeginWaits ==
    /\ cmd.pc = "distribute"
    /\ mon.pc \notin {"send", "remove"}
    /\ \E dbOk \in BOOLEAN :
          LET t == DistBegin(cmd, dbOk)
          IN  /\ cmd' = IF t.pc = "raised" THEN IdleCmd
                        ELSE [t EXCEPT !.summary = None, !.overlap = MonBetweenSends]
              /\ cmdHist' = Recorded("commands", 
                    [cmdHist EXCEPT !.steps = Append(@, "distribute"),
                                    !.snapshot = t.subscribers,
                                    !.ended = (t.pc = "raised")], cmdHist)
    /\ CmdFrame

\* Lines 487 and 559: await self.send_summary_to_subscribers(summary); an
\* exception of it ends the handler.
CmdDistBegin ==
    /\ cmd.pc = "distribute"
    /\ \E dbOk \in BOOLEAN :
          LET t == DistBegin(cmd, dbOk)
          IN  /\ cmd' = IF t.pc = "raised" THEN IdleCmd
                        ELSE [t EXCEPT !.summary = None, !.overlap = MonBetweenSends]
              /\ cmdHist' = Recorded("commands", 
                    [cmdHist EXCEPT !.steps = Append(@, "distribute"),
                                    !.snapshot = t.subscribers,
                                    !.ended = (t.pc = "raised")], cmdHist)
    /\ CmdFrame

CmdSend ==
    /\ cmd.pc = "send"
    /\ \E delivered \in BOOLEAN : cmd' = DistSend(cmd, delivered)
    /\ cmdHist' = Recorded("commands", [cmdHist EXCEPT !.attempted = Append(@, cmd.subscribers[cmd.idx])],
                           cmdHist)
    /\ CmdFrame

CmdRemove ==
    /\ cmd.pc = "remove"
    /\ \E dbOk \in BOOLEAN :
          LET r == DistRemove(cmd, dbOk)
          IN  /\ table' = r.table
              /\ cmd' = r.task
    /\ UNCHANGED <<everAdded, cmdHist>>
    /\ CmdWriteFrame

\* Faulty variant: a handler's pass stamps last_processed_time.
CmdFinishStamps ==
    /\ cmd.pc = "returned"
    /\ cmd' = IdleCmd
    /\ cmdHist' = Recorded("commands", [cmdHist EXCEPT !.ended = TRUE], cmdHist)
    /\ last_processed_time' = now
    /\ UNCHANGED <<backend, net, table, now, srcNewest, last_message_id, mon, proc>>
    /\ UNCHANGED monHist
    /\ UNCHANGED <<everAdded, lastOp, chain, twin, txn, base>>

\* Lines 488 and 561: the closing event.respond; the handler ends.
CmdFinish ==
    /\ cmd.pc = "returned"
    /\ cmd' = IdleCmd
    /\ cmdHist' = Recorded("commands", [cmdHist EXCEPT !.ended = TRUE], cmdHist)
    /\ CmdFrame

\* ------------------------------------------------------------------ startup
\* main() (lines 603-641). proc.pc is its position; credentials, admin_id and
\* tableExists are what the process finds: whether the environment holds all
\* credentials, the --admin_id argument (0: not given), whether subscribers.db
\* has the subscribers table. exit is the exit status once pc = "exited";
\* logged is how the cause of the exit was reported.

NotExited == 0 - 1

\* run() has connected and set up the handlers.
Running == [pc |-> "running", credentials |-> TRUE, admin_id |-> 0,
            tableExists |-> TRUE, exit |-> NotExited, logged |-> "none"]

\* What a startup step leaves alone.
StartupFrame ==
    /\ UNCHANGED <<backend, net, now, srcNewest, last_message_id, last_processed_time,
                   mon, cmd>>
    /\ UNCHANGED monHist
    /\ UNCHANGED storeHist

\* Line 620: monitor = FinancialNewsMonitor(). __init__ (lines 57-61) raises
\* ValueError when a credential is missing; main() does not catch it, so
\* asyncio.run raises it and the interpreter prints the traceback and exits
\* with status 1.
Construct ==
    /\ proc.pc = "main"
    /\ proc' = IF proc.credentials
               THEN [proc EXCEPT !.pc = "admin"]
               ELSE [proc EXCEPT !.pc = "exited", !.exit = 1, !.logged = "traceback"]
    /\ UNCHANGED table
    /\ StartupFrame

\* Lines 622-629: with --admin_id, add_subscriber(admin_id, "admin", "Admin")
\* is called before connect() has created the table; without the table the
\* statement fails and add_subscriber returns False.
AdminAdd ==
    /\ proc.pc = "admin"
    /\ \E dbOk \in BOOLEAN :
          table' = IF proc.admin_id = 0 THEN table
                   ELSE add_subscriber(table, proc.admin_id, "admin", "Admin",
                                       dbOk /\ proc.tableExists).table
    /\ proc' = [proc EXCEPT !.pc = "run"]
    /\ StartupFrame

\* Lines 631-632 and 580-583: monitor.run() calls connect() and
\* setup_handlers(). subscriber_db.connect() creates the table. An exception
\* of connect() is caught at line 635 and logged with logger.error.
Connect ==
    /\ proc.pc = "run"
    /\ \E outcome \in ConnectOutcomes :
          proc' = IF outcome = "connected"
                  THEN [proc EXCEPT !.pc = "running", !.tableExists = TRUE]
                  ELSE [proc EXCEPT !.pc = "failed", !.logged = "logger.error"]
    /\ UNCHANGED table
    /\ StartupFrame

\* Lines 633-638: after the except branch the finally branch disconnects,
\* main() returns and asyncio.run(main()) returns: the exit status is 0.
MainReturns ==
    /\ proc.pc = "failed"
    /\ proc' = [proc EXCEPT !.pc = "exited", !.exit = 0]
    /\ UNCHANGED table
    /\ StartupFrame

\* ------------------------------------------------------------ specifications

\* The tasks and the histories at their start.
HistInit ==
    /\ now = 0
    /\ srcNewest = 0
    /\ last_message_id = 0
    /\ last_processed_time = 0
    /\ cmd = IdleCmd
    /\ cmdHist = NoCmdHist
    /\ atFetch = NoFetch
    /\ failedCycles = {}
    /\ pass = NoPass
    /\ lastCycleRaised = FALSE
    /\ everAdded = {}
    /\ lastOp = NoOp
    /\ twin = [table |-> {}, result |-> "None"]
    /\ txn = [t \in Tasks |-> NoTxn]
    /\ base = {}
    /\ chain = NoChain

TasksInit ==
    /\ net = Connected
    /\ mon = NoLocals @@ [pc |-> "fetch"]
    /\ HistInit

\* The bot's state after run() has connected and set up the handlers (lines
\* 578-592): the monitor loop about to make its first fetch, no command
\* being handled.
BotInit ==
    /\ proc = Running
    /\ TasksInit

\* SpecStore: a store of either backend, empty after create_table.
StoreInit ==
    /\ backend \in {"sqlite", "pg"}
    /\ table = {}
    /\ observe = {}
    /\ BotInit

StoreNext ==
    \/ \E u \in UserIds, p \in Profiles, dbOk \in BOOLEAN :
          AddSubscriber(u, p[1], p[2], dbOk)
    \/ \E u \in UserIds, dbOk \in BOOLEAN : RemoveSubscriber(u, dbOk)
    \/ Tick

SpecStore == StoreInit /\ [][StoreNext]_vars

\* SpecTwin: SpecStore with the other backend given the same calls (twin).
TwinInit ==
    /\ backend \in {"sqlite", "pg"}
    /\ table = {}
    /\ observe = Histories
    /\ BotInit

SpecTwin == TwinInit /\ [][StoreNext]_vars

Monitor ==
    \/ MonFetch
    \/ MonCheck
    \/ MonSummarize
    \/ MonDistBegin
    \/ MonSend
    \/ MonRemove
    \/ MonStamp
    \/ MonSleep
    \/ MonError
    \/ MonRetrySleep

\* SpecMonitor: the monitor loop alone. The store holds a row for every
\* recipient, subscribed in an earlier run, any of them active.
StoredTable(activeIds) ==
    {[NewRow(u, Profile[1], Profile[2], 0) EXCEPT !.active = (u \in activeIds)] :
        u \in UserIds}

MonitorInit ==
    /\ backend = "sqlite"
    /\ \E activeIds \in SUBSET UserIds : table = StoredTable(activeIds)
    /\ observe = Histories
    /\ BotInit

MonitorNext == Monitor \/ NewPost

SpecMonitor == MonitorInit /\ [][MonitorNext]_vars

\* SpecClock: the monitor loop with the clock advancing and /status asked.
ClockNext ==
    \/ MonitorNext
    \/ Tick
    \/ \E dbOk \in BOOLEAN : StatusCommand(dbOk)

SpecClock == MonitorInit /\ [][ClockNext]_vars

\* SpecRace: the monitor loop and the /start and /stop commands, their
\* histories recorded, every recipient subscribed at the start.
RaceInit ==
    /\ backend = "sqlite"
    /\ table = StoredTable(UserIds)
    /\ observe = {"commands"}
    /\ BotInit

RaceNext ==
    \/ MonitorNext
    \/ \E u \in UserIds, dbOk \in BOOLEAN : StartCommand(u, Profile[1], Profile[2], dbOk)
    \/ \E u \in UserIds, dbOk \in BOOLEAN : StopCommand(u, dbOk)

SpecRace == RaceInit /\ [][RaceNext]_vars

\* SpecPass: the monitor loop and its passes over a store of either backend.
PassInit ==
    /\ backend \in {"sqlite", "pg"}
    /\ \E activeIds \in SUBSET UserIds : table = StoredTable(activeIds)
    /\ observe = Histories
    /\ BotInit

SpecPass == PassInit /\ [][MonitorNext]_vars

\* SpecMonitorLive: SpecMonitor with the event loop resuming the task when
\* the handler has logged and when its asyncio.sleep(60) (line 387) is over.
SpecMonitorLive == SpecMonitor /\ WF_vars(MonError) /\ WF_vars(MonRetrySleep)

\* SpecNet: the monitor loop over a network that fails: the reader drops, the
\* fetch raises inside, and the loop's except branch is entered with an
\* exception of any of the texts ErrorTexts.
ErrorTexts == {"'key_points'", "Timeout", "Connection reset by peer",
               "Server Disconnected"}

NetInit ==
    /\ backend = "sqlite"
    /\ \E activeIds \in SUBSET UserIds : table = StoredTable(activeIds)
    /\ observe = Histories
    /\ proc = Running
    /\ net = [Connected EXCEPT !.faulty = TRUE]
    /\ \/ mon = NoLocals @@ [pc |-> "fetch"]
       \/ \E text \in ErrorTexts : mon = [NoLocals EXCEPT !.exc = text] @@ [pc |-> "error"]
    /\ HistInit

NetNext ==
    \/ Monitor
    \/ MonDisconnect
    \/ MonPause
    \/ MonReconnect
    \/ NewPost
    \/ ReaderDrops

SpecNet == NetInit /\ [][NetNext]_vars

\* SpecTxn: the monitor task and a handler task calling add_subscriber and
\* remove_subscriber of the SQLite backend at the same time.
TxnInit ==
    /\ backend = "sqlite"
    /\ table = {}
    /\ observe = {}
    /\ BotInit

TxnNext ==
    \/ \E t \in Tasks, op \in {"add", "remove"}, u \in UserIds : TxnCall(t, op, u)
    \/ \E t \in Tasks : TxnExecute(t)
    \/ \E t \in Tasks : TxnBusy(t)
    \/ \E t \in Tasks, dbOk \in BOOLEAN : TxnCommit(t, dbOk)
    \/ TxnReturn
    \/ Tick

SpecTxn == TxnInit /\ [][TxnNext]_vars

\* SpecRun: the process from the entry of main(), over a database file that
\* is new or is left by an earlier run, and then the monitor loop.
RunInit ==
    /\ backend = "sqlite"
    /\ observe = {}
    /\ \E credentials \in BOOLEAN, admin_id \in {0} \cup UserIds, tableExists \in BOOLEAN :
          /\ proc = [pc |-> "main", credentials |-> credentials, admin_id |-> admin_id,
                     tableExists |-> tableExists, exit |-> NotExited, logged |-> "none"]
          /\ table \in IF tableExists THEN {{}, StoredTable(UserIds)} ELSE {{}}
    /\ TasksInit

RunNext ==
    \/ Construct
    \/ AdminAdd
    \/ Connect
    \/ MainReturns
    \/ (proc.pc = "running" /\ MonitorNext)

SpecRun == RunInit /\ [][RunNext]_vars

\* SpecSubscribe: the subscribe and unsubscribe commands alone, their history
\* recorded, the senders changing their handle and name, the clock advancing.
CommandsInit ==
    /\ backend = "sqlite"
    /\ table = {}
    /\ observe = Histories
    /\ BotInit

SubscribeNext ==
    \/ \E u \in UserIds, p \in Profiles, dbOk \in BOOLEAN : StartCommand(u, p[1], p[2], dbOk)
    \/ \E u \in UserIds, p \in Profiles, dbOk \in BOOLEAN :
          SubscribeMeCommand(u, p[1], p[2], dbOk)
    \/ \E u \in UserIds, dbOk \in BOOLEAN : StopCommand(u, dbOk)
    \/ Tick

SpecSubscribe == CommandsInit /\ [][SubscribeNext]_vars

\* Spec: the monitor loop and the command handlers, over an empty store.
Init ==
    /\ backend = "sqlite"
    /\ table = {}
    /\ observe = {}
    /\ BotInit

Commands ==
    \/ \E u \in UserIds, dbOk \in BOOLEAN : StartCommand(u, Profile[1], Profile[2], dbOk)
    \/ \E u \in UserIds, dbOk \in BOOLEAN : SubscribeMeCommand(u, Profile[1], Profile[2], dbOk)
    \/ \E u \in UserIds, dbOk \in BOOLEAN : StopCommand(u, dbOk)
    \/ \E u \in UserIds, dbOk \in BOOLEAN : TestCommand(u, Profile[1], Profile[2], dbOk)
    \/ ForceUpdateCommand
    \/ HelpCommand
    \/ \E dbOk \in BOOLEAN : StatusCommand(dbOk)
    \/ CmdFetch
    \/ CmdSummarize
    \/ CmdDistBegin
    \/ CmdSend
    \/ CmdRemove
    \/ CmdFinish

\* SpecCommands: the command handlers alone, their history recorded, the
\* channel posting and the clock advancing.
CommandsNext == Commands \/ NewPost \/ Tick

SpecCommands == CommandsInit /\ [][CommandsNext]_vars

Next == Monitor \/ Commands \/ NewPost

Spec == Init /\ [][Next]_vars

\* ------------------------------------------------------------------ properties

IsActive(tbl, user_id) == \E r \in RowsOf(tbl, user_id) : r.active

\* C4: after addSubscriber(id,h1,n1); removeSubscriber(id); addSubscriber(id,h2,n2),
\* each succeeding, on either backend, the store holds exactly one row for
\* id, and that row is active with handle h2 and name n2.
C4_AddRemoveAdd ==
    chain.stage = 3 =>
        /\ lastOp.op = "add" /\ lastOp.user_id = chain.user_id
        /\ Cardinality(RowsOf(table, chain.user_id)) = 1
        /\ \A r \in RowsOf(table, chain.user_id) :
              r.active /\ r.username = lastOp.username /\ r.first_name = lastOp.first_name

\* The sequence has been done on the PostgreSQL backend, the second add with
\* other display fields than the row had.
C4_Witness ==
    /\ chain.stage = 3
    /\ backend = "pg"
    /\ lastOp.username = "None"
    /\ \E r \in table : r.user_id # chain.user_id

\* C5: removeSubscriber(id) for an identifier with no row leaves the store as
\* it was (no row created, no other row changed) and, the backend working,
\* returns normally.
C5_RemoveUnknown ==
    [][(lastOp'.op = "remove" /\ RowsOf(table, lastOp'.user_id) = {})
          => (table' = table /\ (lastOp'.dbOk => Succeeded(lastOp'.result)))]_vars

\* An unknown identifier has just been removed from a store that holds
\* another subscriber's row.
C5_Witness ==
    /\ lastOp.op = "remove" /\ lastOp.dbOk
    /\ RowsOf(table, lastOp.user_id) = {}
    /\ table # {}

\* C6: getSubscriberCount() equals the number of identifiers
\* getActiveSubscribers() returns; and after a successful add that leaves a
\* single row, the active list is that identifier alone and the count is 1.
C6_CountIsActiveListLength ==
    /\ get_subscriber_count(table, TRUE) = Len(get_active_subscribers(table, TRUE))
    /\ (lastOp.op = "add" /\ Succeeded(lastOp.result) /\ Cardinality(table) = 1)
          => /\ get_active_subscribers(table, TRUE) = <<lastOp.user_id>>
             /\ get_subscriber_count(table, TRUE) = 1

\* The store holds an active and an inactive row: count 1, one identifier listed.
C6_Witness ==
    /\ Cardinality(table) = 2
    /\ get_subscriber_count(table, TRUE) = 1
    /\ Len(get_active_subscribers(table, TRUE)) = 1

\* C7 as stated: every identifier ever added keeps exactly one row, and of a
\* row only the active flag and the display fields ever change.
C7_OnlyFlagAndDisplayChange ==
    [][/\ \A u \in everAdded : Cardinality(RowsOf(table', u)) = 1
       /\ \A r \in table : \E q \in table' :
             q.user_id = r.user_id /\ q.subscribed_at = r.subscribed_at]_vars

\* C7 as amended: every identifier ever added keeps exactly one row; rows are
\* never removed; the active flag and the display fields change, and on the
\* SQLite backend a repeated add also rewrites subscribed_at.
C7_RowsNeverRemoved ==
    /\ [](\A u \in everAdded : Cardinality(RowsOf(table, u)) = 1)
    /\ [][\A r \in table : \E q \in table' :
             /\ q.user_id = r.user_id
             /\ backend = "pg" => q.subscribed_at = r.subscribed_at]_vars

\* A subscriber has been added and then removed: the row is still there, inactive.
C7_Witness ==
    /\ lastOp.op = "remove"
    /\ lastOp.user_id \in everAdded
    /\ \E r \in RowsOf(table, lastOp.user_id) : ~r.active

\* C1: a pass of the monitor over a snapshot of N active subscribers in which
\* exactly one send fails (to k) and every store call succeeds attempts a
\* send for all N in snapshot order, and when it returns k is inactive and
\* each of the other N-1 is still active.
C1_OneFailedSend ==
    (mon.pc = "returned" /\ pass.storeOk /\ Cardinality(pass.failedSends) = 1)
        => /\ pass.attempted = mon.subscribers
           /\ \A i \in 1..Len(mon.subscribers) :
                 IsActive(table, mon.subscribers[i])
                    <=> mon.subscribers[i] \notin pass.failedSends

\* A pass over the snapshot [1, 2] has returned, the send to 1 having failed
\* and the send to 2, made after it, having succeeded.
C1_Witness ==
    /\ mon.pc = "returned"
    /\ pass.storeOk
    /\ mon.subscribers = <<1, 2>>
    /\ pass.failedSends = {1}

\* The positions of a monitor cycle in which the summarizer is being invoked
\* or has been invoked.
SummarizerInvoked == {"summarize", "distribute", "send", "remove", "returned", "error"}

\* C2: a monitor cycle reaches the summarizer or the distributor only with a
\* batch whose newest identifier differs from the cursor as it was at the
\* fetch; and a cycle whose batch has the same newest identifier as the batch
\* of the cycle before does not reach them.
C2_DedupSkips ==
    mon.pc \in SummarizerInvoked =>
        /\ mon.messages # <<>>
        /\ Head(mon.messages) # atFetch.cursor
        /\ Head(mon.messages) # atFetch.prevNewest

\* Two cycles in a row have fetched the same newest identifier, equal to the
\* cursor, and the second one is going to sleep without summarizing.
C2_Witness ==
    /\ mon.pc = "sleep"
    /\ mon.messages # <<>>
    /\ Head(mon.messages) = atFetch.cursor
    /\ Head(mon.messages) = atFetch.prevNewest
    /\ mon.summary = None

\* C3: when summarization is attempted the cursor already is the newest
\* fetched identifier, and no batch is summarized whose newest identifier had
\* a cycle that ended in a fallback artifact or an exception.
C3_CursorBeforeSummarize ==
    mon.pc = "summarize" =>
        /\ last_message_id = Head(mon.messages)
        /\ Head(mon.messages) \notin failedCycles

\* A later cycle has fetched the newest identifier of a cycle that failed, and
\* skipped it.
C3_Witness ==
    /\ mon.pc = "sleep"
    /\ mon.messages # <<>>
    /\ Head(mon.messages) \in failedCycles
    /\ Head(mon.messages) = atFetch.cursor
    /\ mon.summary = None

\* The keys of the artifact schema that are not optional.
SchemaKeys == {"summary", "key_points", "sentiment", "potentially_impacted_stocks",
               "market_sectors"}

NonEmptyText(text) == \E i \in DOMAIN text : text[i] # ""

\* The collaborator answered with JSON of the artifact schema.
SchemaValid(out) ==
    /\ out.kind = "content"
    /\ JsonLoads(out.content).ok
    /\ SchemaKeys \subseteq DOMAIN JsonLoads(out.content).value

\* C8: for collaborator output that is not valid against the artifact schema
\* (unparseable text, or JSON lacking required fields), summarize returns a
\* fallback artifact with empty impacted-entity and sector collections and a
\* non-empty summary.
C8_InvalidOutputGivesFallback ==
    (mon.collab.kind \in {"content", "no_content"} /\ ~SchemaValid(mon.collab))
        => /\ IsFallback(mon.summary)
           /\ mon.summary.potentially_impacted_stocks = <<>>
           /\ mon.summary.market_sectors = <<>>
           /\ NonEmptyText(mon.summary.summary)

\* C9: on every path (the scheduled cycle, /force_update, /test) the artifact
\* handed to send_summary_to_subscribers has all the fields of the schema: no
\* partially shaped artifact reaches the rendering.
C9_NoPartialArtifactDistributed ==
    \A t \in {mon, cmd} :
        t.pc = "distribute" => SchemaKeys \subseteq DOMAIN t.summary

\* C10: when the request to the collaborator fails, summarize returns the
\* minimal fallback artifact (empty collections, neutral sentiment, one key
\* point) and the cycle is in its distribution step, never in the error path.
C10_RequestFailureContinues ==
    mon.collab.kind = "error" =>
        /\ mon.summary = ErrorFallback
        /\ mon.summary.potentially_impacted_stocks = <<>>
        /\ mon.summary.market_sectors = <<>>
        /\ mon.summary.sentiment = "neutral"
        /\ Len(mon.summary.key_points) = 1
        /\ mon.pc \in {"distribute", "send", "remove", "returned"}

\* The request failed and the cycle is sending the fallback artifact.
C10_Witness ==
    /\ mon.collab.kind = "error"
    /\ mon.pc = "send"
    /\ mon.idx = 2

C12_FailuresAreResults ==
    /\ (lastOp.op \in {"add", "remove"} /\ ~lastOp.dbOk)
          => lastOp.result # "raise" /\ ~Succeeded(lastOp.result)
    /\ get_active_subscribers(table, FALSE) = <<>>
    /\ get_subscriber_count(table, FALSE) = 0

\* C13: the two backends are observably identical: after the same sequence
\* of calls both have returned the same results and hold the same rows, and
\* their reads return the same.
C13_BackendsIdentical ==
    /\ twin.result = lastOp.result
    /\ twin.table = table
    /\ get_active_subscribers(twin.table, TRUE) = get_active_subscribers(table, TRUE)
    /\ get_subscriber_count(twin.table, TRUE) = get_subscriber_count(table, TRUE)

\* The table after the done transactions of the tasks in `order` are made
\* one after the other on tbl, a failed one leaving it as it is.
RECURSIVE Serial(_, _)
Serial(tbl, order) ==
    IF order = <<>> THEN tbl
    ELSE LET t == txn[Head(order)]
             after == IF t.result = "True"
                      THEN Statement(tbl, t.op, t.user_id, t.ts) ELSE tbl
         IN  Serial(after, Tail(order))

\* C14: store operations issued by the monitor loop and a command handler at
\* the same time are atomic: when both have returned, the table is what one of
\* the two serial orders of the operations that succeeded gives, and at no
\* time does an identifier have two rows or lose its row.
C14_StoreOperationsAtomic ==
    /\ \A u \in UserIds : Cardinality(RowsOf(table, u)) <= 1
    /\ \A u \in UserIds : RowsOf(base, u) # {} => RowsOf(table, u) # {}
    /\ (\A t \in Tasks : txn[t].pc = "done")
          => table \in {Serial(base, <<"mon", "cmd">>), Serial(base, <<"cmd", "mon">>)}

\* The monitor called remove_subscriber for an identifier while the handler's
\* add_subscriber for it held the write lock; both succeeded, the remove last.
C14_Witness ==
    /\ txn["mon"].waited
    /\ txn["cmd"].pc = "done" /\ txn["cmd"].op = "add" /\ txn["cmd"].result = "True"
    /\ txn["mon"].pc = "done" /\ txn["mon"].op = "remove" /\ txn["mon"].result = "True"
    /\ txn["mon"].user_id = txn["cmd"].user_id
    /\ \E r \in table : r.user_id = txn["cmd"].user_id /\ ~r.active

\* C15: a fatal startup error (a missing credential, or the initial connect
\* failing, the reader not being authorized among the causes) ends the process
\* with a non-zero exit status and a logged cause.
C15_FatalStartupExitsNonZero ==
    proc.pc = "exited" => proc.exit # 0 /\ proc.logged # "none"

\* C16: /start and /subscribe_me have the same effect on the store: the
\* sender has one row, active, with the sender's current handle and name, and
\* no other subscriber's row changes; /stop only sets the sender's row
\* inactive. (The store call succeeding.)
C16_SubscribeCommandsStoreEffect ==
    LET others == UserIds \ {cmdHist.sender}
        unchanged == \A u \in others : RowsOf(table, u) = RowsOf(cmdHist.before, u)
    IN  /\ (cmdHist.command \in {"start", "subscribe_me"} /\ cmdHist.dbOk)
              => /\ unchanged
                 /\ Cardinality(RowsOf(table, cmdHist.sender)) = 1
                 /\ \A r \in RowsOf(table, cmdHist.sender) :
                        /\ r.active
                        /\ r.username = cmdHist.username
                        /\ r.first_name = cmdHist.first_name
        /\ (cmdHist.command = "stop" /\ cmdHist.dbOk)
              => /\ unchanged
                 /\ RowsOf(table, cmdHist.sender) =
                        {[r EXCEPT !.active = FALSE] : r \in RowsOf(cmdHist.before, cmdHist.sender)}

\* /subscribe_me from a sender whose row was inactive and held another handle,
\* another subscriber having a row.
C16_Witness ==
    /\ cmdHist.command = "subscribe_me"
    /\ cmdHist.dbOk
    /\ \E r \in RowsOf(cmdHist.before, cmdHist.sender) :
          ~r.active /\ r.username # cmdHist.username
    /\ \E r \in table : r.user_id # cmdHist.sender

\* C17: a sender issuing /start twice in a row, or /stop twice in a row,
\* leaves the store, the subscription timestamp included, as issuing it once
\* does.
C17_RepeatedCommandIdempotent ==
    (cmdHist.repeat /\ cmdHist.command \in {"start", "stop"})
        => table = cmdHist.before

IsPrefix(s, t) == Len(s) <= Len(t) /\ \A i \in 1..Len(s) : s[i] = t[i]

\* C18 as claimed: /test fetches and summarizes, answers the requester with
\* the rendered result, and only then upserts the requester and runs the
\* distribution pass.
C18_TestUpsertsAfterAnswer ==
    cmdHist.command = "test"
        => IsPrefix(cmdHist.steps,
                    <<"fetch", "summarize", "respond", "add_subscriber", "distribute">>)

\* C18: /test first upserts the requester, then fetches and summarizes,
\* answers the requester with the rendered result, and then runs the
\* distribution pass.
C18_TestUpsertsFirst ==
    cmdHist.command = "test"
        => IsPrefix(cmdHist.steps,
                    <<"add_subscriber", "fetch", "summarize", "respond", "distribute">>)

\* A /test handler has gone through all its steps and its pass has sent.
C18_Witness ==
    /\ cmdHist.command = "test"
    /\ cmdHist.steps = <<"add_subscriber", "fetch", "summarize", "respond", "distribute">>
    /\ cmdHist.attempted # <<>>
    /\ cmdHist.ended

\* C19: whenever the fetch of /force_update is non-empty, the handler runs
\* summarize and a distribution pass over all the active subscribers, whatever
\* the monitor's cursor.
C19_ForceUpdateDistributes ==
    (cmdHist.command = "force_update" /\ cmdHist.ended /\ cmdHist.fetched)
        => /\ cmdHist.steps = <<"fetch", "summarize", "distribute">>
           /\ cmdHist.attempted = cmdHist.snapshot

\* C20: distribution passes do not exclude each other: a handler's pass is
\* never made to wait for the monitor's pass, so that a /force_update (or
\* /test) pass can begin while the scheduled pass is between two sends, and one
\* recipient is sent the summary by both.
C20_PassesNotExclusive ==
    cmd.pc = "distribute" => ENABLED CmdDistBegin

\* A /force_update pass began while the monitor's pass was between two sends,
\* and a recipient has been delivered a summary by both passes.
C20_Witness ==
    /\ cmd.command = "force_update"
    /\ cmd.overlap
    /\ mon.sent \cap cmd.sent # {}

\* C21: no command handler (/start, /stop, /help, /status, /test,
\* /force_update, /subscribe_me) changes the monitor's cursor or
\* last_processed_time, in any of its steps.
C21_HandlersLeaveCursorAndStamp ==
    [][/\ last_message_id' = last_message_id
       /\ last_processed_time' = last_processed_time]_<<cmd, cmdHist, table>>

\* A /force_update handler has fetched a batch newer than the cursor, run its
\* pass and ended, at a time later than last_processed_time.
C21_Witness ==
    /\ cmdHist.command = "force_update"
    /\ cmdHist.ended
    /\ cmdHist.attempted # <<>>
    /\ srcNewest # last_message_id
    /\ now # last_processed_time

C23_FetchReconnectsOnce ==
    /\ Len(atFetch.attempts) = IF atFetch.wasConnected THEN 0 ELSE 1
    /\ (mon.pc \in {"check", "summarize", "distribute", "send", "remove", "returned",
                     "sleep", "error"}
        /\ atFetch.attempts \in {<<"raised">>, <<"not_authorized">>})
          => /\ mon.pc \in {"check", "sleep"}
             /\ mon.messages = <<>>
             /\ mon.summary = None
             /\ last_message_id = atFetch.cursor

\* The reader was down at the fetch, the one reconnect attempt raised, and
\* the cycle has gone to its sleep while the channel holds a message newer
\* than the cursor.
C23_Witness ==
    /\ mon.pc = "sleep"
    /\ ~atFetch.wasConnected
    /\ atFetch.attempts = <<"raised">>
    /\ srcNewest > last_message_id

C24_OneSendPerSnapshotEntry ==
    /\ mon.pc = "send" => pass.attempted = SubSeq(mon.subscribers, 1, mon.idx - 1)
    /\ mon.pc = "remove" => pass.attempted = SubSeq(mon.subscribers, 1, mon.idx)
    /\ mon.pc = "returned"
          => /\ pass.attempted = mon.subscribers
             /\ pass.storeOk => mon.subscribers = get_active_subscribers(pass.before, TRUE)
             /\ mon.subscribers = <<>> => table = pass.before
    /\ \A i, j \in 1..Len(pass.attempted) : pass.attempted[i] = pass.attempted[j] => i = j

\* A pass over the snapshot [1, 2] has returned after both sends failed: each
\* was attempted once.
C24_Witness ==
    /\ mon.pc = "returned"
    /\ mon.subscribers = <<1, 2>>
    /\ pass.failedSends = {1, 2}
    /\ pass.attempted = <<1, 2>>

\* C25: when, after a failed send to k, remove_subscriber(k) fails too (it
\* returns False on SQLite, it raises on PostgreSQL), the pass neither raises
\* nor stops: it goes on to attempt a send for every remaining identifier of
\* the snapshot and returns to its caller.
C25_FailedRemoveDoesNotStopPass ==
    pass.failedRemoves # {}
        => /\ mon.pc \notin {"raised", "error"}
           /\ mon.pc = "send" => pass.attempted = SubSeq(mon.subscribers, 1, mon.idx - 1)
           /\ mon.pc = "returned" => pass.attempted = mon.subscribers

\* On PostgreSQL the send to 1 failed and remove_subscriber(1) raised; the
\* pass went on to 2 and has returned, 1 still active.
C25_Witness ==
    /\ backend = "pg"
    /\ mon.pc = "returned"
    /\ mon.subscribers = <<1, 2>>
    /\ pass.failedRemoves = {1}
    /\ pass.attempted = <<1, 2>>
    /\ IsActive(table, 1)

\* C26: last_processed_time, the time /status reports, is the time of the
\* last successful distribution: it changes only when a monitor cycle has
\* completed a pass that delivered to some subscriber, never in a cycle in
\* which nothing was delivered.
C26_StampOnlyAfterDelivery ==
    [][last_processed_time' # last_processed_time
          => mon.pc = "returned" /\ mon.sent # {}]_vars

\* The state of the monitor loop's state machine a position belongs to.
LoopState(pc) ==
    CASE pc \in {"fetch", "check"} -> "Fetching"
      [] pc = "summarize" -> "Summarizing"
      [] pc \in {"distribute", "send", "remove", "returned"} -> "Distributing"
      [] pc = "sleep" -> "Sleeping"
      [] OTHER -> "ErrorBackoff"

\* Fetching -> (NoNewData | Summarizing) -> Distributing -> Sleeping ->
\* Fetching, NoNewData being the step from Fetching to Sleeping.
LoopTransitions ==
    {<<"Fetching", "Summarizing">>, <<"Fetching", "Sleeping">>,
     <<"Summarizing", "Distributing">>, <<"Distributing", "Sleeping">>,
     <<"Sleeping", "Fetching">>, <<"ErrorBackoff", "Fetching">>}

\* C27: the monitor loop takes only the transitions of its state machine:
\* a cycle starts with a fetch, distribution follows summarization, the
\* no-new-data and the distributed outcomes go to the full-interval sleep and
\* then to a fetch, and the error backoff is the only other successor of a
\* step.
C27_OnlyStateMachineTransitions ==
    [][\/ LoopState(mon'.pc) = LoopState(mon.pc)
       \/ LoopState(mon'.pc) = "ErrorBackoff"
       \/ <<LoopState(mon.pc), LoopState(mon'.pc)>> \in LoopTransitions]_mon

\* C29: a pass deactivates a subscriber only for a send that failed after the
\* subscriber's last subscribe: when /start or /subscribe_me of the sender
\* has completed after the failed send and before the deregistration, the
\* sender stays active.
C29_SubscribeAfterFailedSendStays ==
    [][(/\ cmdHist.command = "start"
        /\ cmdHist.dbOk
        /\ cmdHist.during = cmdHist.sender
        /\ mon.pc = "remove"
        /\ mon.subscribers[mon.idx] = cmdHist.sender)
          => IsActive(table', cmdHist.sender)]_vars

\* C30: after a sender's /stop has completed, and until the sender
\* subscribes again, no pass makes a send to the sender, passes that were in
\* progress when /stop was handled included.
C30_NoSendAfterStop ==
    [][(/\ cmdHist.command = "stop"
        /\ cmdHist.dbOk
        /\ mon.pc = "send"
        /\ mon.subscribers[mon.idx] = cmdHist.sender)
          => mon' = mon]_vars

\* C31: in the monitor loop the cursor changes only in the check of a cycle
\* whose fetch returned a non-empty batch with a newest identifier different
\* from the cursor, and it becomes that identifier; a cycle whose fetch
\* returned nothing, or failed, leaves it as it was; and a cycle reaches the
\* summarizer only with a batch whose newest identifier is not the cursor, so
\* the batch fetched again after an empty fetch is not summarized again.
C31_CursorChangesOnlyOnNewBatch ==
    [][/\ last_message_id' # last_message_id
          => /\ mon.pc = "check"
             /\ mon.messages # <<>>
             /\ Head(mon.messages) # last_message_id
             /\ last_message_id' = Head(mon.messages)
       /\ (mon.pc = "check" /\ mon.messages = <<>>)
          => /\ last_message_id' = last_message_id
             /\ mon'.pc = "sleep"
       /\ mon'.pc = "summarize"
          => /\ mon.pc = "check"
             /\ mon.messages # <<>>
             /\ Head(mon.messages) # last_message_id]_<<mon, last_message_id>>

\* A batch was summarized, the next fetch returned nothing, and the fetch
\* after it returned a batch with the same newest identifier: the cycle has
\* gone to its sleep with no summary and the cursor as it was.
C31_Witness ==
    /\ mon.pc = "sleep"
    /\ mon.messages # <<>>
    /\ mon.summary = None
    /\ atFetch.prevNewest = 0
    /\ atFetch.cursor # 0
    /\ Head(mon.messages) = atFetch.cursor
    /\ last_message_id = atFetch.cursor

\* C32: no call of the store is issued before the store's connect() has made
\* sure the table exists: the startup registration of the admin identifier is
\* issued with the table in place, and leaves that identifier active unless
\* the store itself fails, so that the first snapshot holds it.
C32_NoStoreCallBeforeSchema ==
    [][(proc.pc = "admin" /\ proc.admin_id # 0)
          => /\ proc.tableExists
             /\ \/ IsActive(table', proc.admin_id)
                \/ table' = add_subscriber(table, proc.admin_id, "admin", "Admin", FALSE).table]_proc

====
